---- MODULE Spec2Model ----
(***************************************************************************)
(* Comment-anchored patching of documents: the accept / reject / reply /   *)
(* create request handlers of the comments API, and the string matching    *)
(* the accept handler uses to locate a proposal's original in a document.  *)
(*                                                                         *)
(* A JavaScript string is a sequence of one-character strings.  Line and   *)
(* match indices are kept 0-based, as in the source; TLA+ sequences are    *)
(* 1-based, so element k of the source is element k + 1 here.              *)
(***************************************************************************)
EXTENDS Integers, Sequences, FiniteSets, TLC

\* ------------------------------------------------------------------------
\* JavaScript string primitives
\* ------------------------------------------------------------------------

\* The characters the regular-expression class \s and String.trim remove.
WhiteSpace == {" ", "\n", "\t", "\r"}

\* The characters after which the multiline anchor ^ matches.
LineTerminators == {"\n", "\r"}

\* The backtick character (a string literal cannot hold it).
BackTick == "<backtick>"

Digits == {"0", "1", "2", "3", "4", "5", "6", "7", "8", "9"}

UpperCase ==
  << "A", "B", "C", "D", "E", "F", "G", "H", "I", "J", "K", "L", "M",
     "N", "O", "P", "Q", "R", "S", "T", "U", "V", "W", "X", "Y", "Z" >>

LowerCase ==
  << "a", "b", "c", "d", "e", "f", "g", "h", "i", "j", "k", "l", "m",
     "n", "o", "p", "q", "r", "s", "t", "u", "v", "w", "x", "y", "z" >>

Capitals == {UpperCase[k] : k \in 1..Len(UpperCase)}

Min(a, b) == IF a < b THEN a ELSE b

Max(a, b) == IF a > b THEN a ELSE b

\* s.slice(from): the characters of s from 0-based offset from on.
sliceFrom(s, from) == SubSeq(s, from + 1, Len(s))

\* s.slice(0, n)
slicePrefix(s, n) == SubSeq(s, 1, Min(n, Len(s)))

\* t occurs in s at 0-based offset p
occursAt(s, t, p) ==
  /\ p >= 0
  /\ p + Len(t) <= Len(s)
  /\ SubSeq(s, p + 1, p + Len(t)) = t

\* s.includes(t)
includes(s, t) == \E p \in 0..(Len(s) - Len(t)) : occursAt(s, t, p)

\* The offset a search that scans from the end of s would report.
indexOfLast(s, t) ==
  IF includes(s, t)
  THEN CHOOSE p \in 0..(Len(s) - Len(t)) :
         /\ occursAt(s, t, p)
         /\ \A q \in (p + 1)..(Len(s) - Len(t)) : ~occursAt(s, t, q)
  ELSE -1

\* s.indexOf(t): the 0-based offset of the leftmost occurrence, or -1.
indexOf(s, t) ==
  IF includes(s, t)
  THEN CHOOSE p \in 0..(Len(s) - Len(t)) :
         /\ occursAt(s, t, p)
         /\ \A q \in 0..(p - 1) : ~occursAt(s, t, q)
  ELSE -1

\* GetSubstitution of String.prototype.replace for a string pattern (no
\* captures): $$ is a dollar sign, $& the matched text, $ with a backtick
\* the text before the match, $' the text after it; $ before anything
\* else is literal.
RECURSIVE Substitute(_, _, _, _, _)
Substitute(matched, str, position, replacement, i) ==
  IF i > Len(replacement) THEN << >>
  ELSE IF replacement[i] = "$" /\ i < Len(replacement)
            /\ replacement[i + 1] \in {"$", "&", BackTick, "'"}
  THEN (CASE replacement[i + 1] = "$" -> << "$" >>
          [] replacement[i + 1] = "&" -> matched
          [] replacement[i + 1] = BackTick -> SubSeq(str, 1, position)
          [] OTHER -> sliceFrom(str, position + Len(matched)))
         \o Substitute(matched, str, position, replacement, i + 2)
  ELSE << replacement[i] >>
         \o Substitute(matched, str, position, replacement, i + 1)

GetSubstitution(matched, str, position, replacement) ==
  Substitute(matched, str, position, replacement, 1)

\* s with the occurrence of t at offset p replaced as replace() does it.
replaceAt(s, t, r, p) ==
  IF p < 0 THEN s
  ELSE SubSeq(s, 1, p) \o GetSubstitution(t, s, p, r)
         \o sliceFrom(s, p + Len(t))

\* s.replace(t, r) with a string pattern t: the leftmost occurrence only.
replace(s, t, r) == replaceAt(s, t, r, indexOf(s, t))

\* s.split(sep) for a separator that is one character out of seps.
RECURSIVE split(_, _)
split(s, seps) ==
  IF \A k \in 1..Len(s) : s[k] \notin seps THEN << s >>
  ELSE LET k == CHOOSE k \in 1..Len(s) :
                  s[k] \in seps /\ \A q \in 1..(k - 1) : s[q] \notin seps
       IN << SubSeq(s, 1, k - 1) >> \o split(SubSeq(s, k + 1, Len(s)), seps)

\* parts.join(sep)
RECURSIVE join(_, _)
join(parts, sep) ==
  IF parts = << >> THEN << >>
  ELSE IF Len(parts) = 1 THEN parts[1]
  ELSE parts[1] \o sep \o join(Tail(parts), sep)

\* The least index k >= i with s[k] in cs, or 0 when there is none.
IndexFrom(s, i, cs) ==
  IF \E k \in i..Len(s) : s[k] \in cs
  THEN CHOOSE k \in i..Len(s) :
         s[k] \in cs /\ \A q \in i..(k - 1) : s[q] \notin cs
  ELSE 0

\* The last index of the run of characters of cs that starts at i
\* (i - 1 when s[i] is not in cs).
RunEnd(s, i, cs) ==
  IF \E k \in i..Len(s) : s[k] \notin cs
  THEN (CHOOSE k \in i..Len(s) :
          s[k] \notin cs /\ \A q \in i..(k - 1) : s[q] \in cs) - 1
  ELSE Len(s)

\* The first index of the run of white space that ends s (Len(s) + 1 when
\* s does not end in white space).
TrailingFrom(s) ==
  IF \E k \in 1..Len(s) : s[k] \notin WhiteSpace
  THEN (CHOOSE k \in 1..Len(s) :
          s[k] \notin WhiteSpace
            /\ \A q \in (k + 1)..Len(s) : s[q] \in WhiteSpace) + 1
  ELSE 1

trimStart(s) == sliceFrom(s, RunEnd(s, 1, WhiteSpace))

trimEnd(s) == SubSeq(s, 1, TrailingFrom(s) - 1)

\* s.trim()
trim(s) == trimEnd(trimStart(s))

\* The characters of s at the indices kept, a white-space one as a space.
spaced(s, kept) ==
  [n \in 1..Len(kept) |->
     IF s[kept[n]] \in WhiteSpace THEN " " ELSE s[kept[n]]]

\* s.replace(/\s+/g, ' '): of every run of white space its first character
\* alone is kept, as a space.
collapseWhitespace(s) ==
  spaced(s, SelectSeq([k \in 1..Len(s) |-> k],
                      LAMBDA k : \/ s[k] \notin WhiteSpace
                                 \/ k = 1
                                 \/ s[k - 1] \notin WhiteSpace))

lowerChar(c) ==
  IF c \in Capitals
  THEN LowerCase[CHOOSE k \in 1..Len(UpperCase) : UpperCase[k] = c]
  ELSE c

\* s.toLowerCase()
toLowerCase(s) == [k \in 1..Len(s) |-> lowerChar(s[k])]

\* The multiline anchor ^ matches before s[i].
AtLineStart(s, i) == i = 1 \/ s[i - 1] \in LineTerminators

\* ------------------------------------------------------------------------
\* stripMarkdown (phrase-match version of the diff route)
\* ------------------------------------------------------------------------

\* .replace(/\[([^\]]+)\]\([^)]+\)/g, '$1'), scanning s from index i.
RECURSIVE stripLinks(_, _)
stripLinks(s, i) ==
  IF i > Len(s) THEN << >>
  ELSE LET j == IF s[i] = "[" THEN IndexFrom(s, i + 1, {"]"}) ELSE 0
           k == IF j > i + 1 /\ j < Len(s) /\ s[j + 1] = "("
                THEN IndexFrom(s, j + 2, {")"}) ELSE 0
       IN IF k > j + 2
          THEN SubSeq(s, i + 1, j - 1) \o stripLinks(s, k + 1)
          ELSE << s[i] >> \o stripLinks(s, i + 1)

\* .replace(/\*\*([^*]+)\*\*/g, '$1'), scanning s from index i.
RECURSIVE stripBold(_, _)
stripBold(s, i) ==
  IF i > Len(s) THEN << >>
  ELSE LET j == IF s[i] = "*" /\ i < Len(s) /\ s[i + 1] = "*"
                THEN IndexFrom(s, i + 2, {"*"}) ELSE 0
       IN IF j > i + 2 /\ j < Len(s) /\ s[j + 1] = "*"
          THEN SubSeq(s, i + 2, j - 1) \o stripBold(s, j + 2)
          ELSE << s[i] >> \o stripBold(s, i + 1)

\* .replace(/c([^c]+)c/g, '$1') for the one-character delimiter c
\* (* for italic, the backtick for code), scanning s from index i.
RECURSIVE stripDelimited(_, _, _)
stripDelimited(s, i, c) ==
  IF i > Len(s) THEN << >>
  ELSE LET j == IF s[i] = c THEN IndexFrom(s, i + 1, {c}) ELSE 0
       IN IF j > i + 1
          THEN SubSeq(s, i + 1, j - 1) \o stripDelimited(s, j + 1, c)
          ELSE << s[i] >> \o stripDelimited(s, i + 1, c)

\* The index of the last character of a match at i of /^-\s+/m ("bullet"),
\* /^\d+\.\s+/m ("number") or /^#+\s+/m ("heading"); 0 when none matches.
MarkerEnd(s, i, kind) ==
  LET m == CASE kind = "bullet" -> IF s[i] = "-" THEN i ELSE 0
             [] kind = "number" ->
                  LET d == RunEnd(s, i, Digits)
                  IN IF d >= i /\ d < Len(s) /\ s[d + 1] = "." THEN d + 1 ELSE 0
             [] OTHER ->
                  LET h == RunEnd(s, i, {"#"}) IN IF h >= i THEN h ELSE 0
  IN IF AtLineStart(s, i) /\ m > 0 /\ m < Len(s) /\ s[m + 1] \in WhiteSpace
     THEN RunEnd(s, m + 1, WhiteSpace)
     ELSE 0

\* .replace(/^-\s+/gm, ''), .replace(/^\d+\.\s+/gm, '') and
\* .replace(/^#+\s+/gm, ''), scanning s from index i.
RECURSIVE stripMarkers(_, _, _)
stripMarkers(s, i, kind) ==
  IF i > Len(s) THEN << >>
  ELSE LET e == MarkerEnd(s, i, kind)
       IN IF e > 0 THEN stripMarkers(s, e + 1, kind)
          ELSE << s[i] >> \o stripMarkers(s, i + 1, kind)

\* .replace(/\s+-\s+(?=[A-Z])/g, ' '), scanning s from index i.
RECURSIVE stripInlineDashes(_, _)
stripInlineDashes(s, i) ==
  IF i > Len(s) THEN << >>
  ELSE LET e == RunEnd(s, i, WhiteSpace)
           f == IF e >= i /\ e + 1 < Len(s) /\ s[e + 1] = "-"
                     /\ s[e + 2] \in WhiteSpace
                THEN RunEnd(s, e + 2, WhiteSpace) ELSE 0
       IN IF f > 0 /\ f < Len(s) /\ s[f + 1] \in Capitals
          THEN << " " >> \o stripInlineDashes(s, f + 1)
          ELSE << s[i] >> \o stripInlineDashes(s, i + 1)

stripMarkdown(text) ==
  LET links == stripLinks(text, 1)
      bold == stripBold(links, 1)
      italic == stripDelimited(bold, 1, "*")
      code == stripDelimited(italic, 1, BackTick)
      bullets == stripMarkers(code, 1, "bullet")
      dashes == stripInlineDashes(bullets, 1)
      numbers == stripMarkers(dashes, 1, "number")
  IN stripMarkers(numbers, 1, "heading")

\* The normalization both sides of the phrase match go through.
normalizePhrase(text) ==
  toLowerCase(trim(collapseWhitespace(stripMarkdown(text))))

\* normalize of the earlier fuzzy matcher: numbered and bullet list markers
\* removed, whitespace collapsed, trimmed, lower-cased.
normalize(text) ==
  toLowerCase(trim(collapseWhitespace(
    stripMarkers(stripMarkers(text, 1, "number"), 1, "bullet"))))

\* original.replace(/\s+/g, ' ').trim() of the line-accumulation matcher.
normalizeWhitespace(text) == trim(collapseWhitespace(text))

\* ------------------------------------------------------------------------
\* Locating the proposal's original in the document (diff route, accept)
\* ------------------------------------------------------------------------

\* A fragment must be longer than this, trimmed, to be the search phrase.
PhraseMinLength == 10

\* Only this many leading characters of the search phrase are looked for.
PhrasePrefixLength == 30

\* The line accumulation gives up on a start line once the accumulated text
\* is longer than the normalized original by more than this.
AccumulationSlack == 50

ErrCommentNotFound == "Comment not found"

ErrNoDiff == "No diff to process"

ErrInvalidAction == "Invalid action"

ErrNotFound == "Original text not found in file. The file may have changed."

ErrNotFoundFuzzy ==
  "Original text not found in file. The AI may have provided incorrect text. Try creating a new comment."

ErrNoPhrase == "Could not extract search phrase from original text."

\* l.trim() is truthy
nonBlank(l) == trim(l) # << >>

\* s.trim().length > 10
significant(s) == Len(trim(s)) > PhraseMinLength

SentenceEnds == {".", "!", "?", "\n"}

\* text.split(/[.!?\n]/).filter(s => s.trim().length > 10)[0]?.trim():
\* << >> when undefined, else the one-element sequence holding the phrase.
firstPhrase(text) ==
  LET found == SelectSeq(split(text, SentenceEnds), significant)
  IN IF found = << >> THEN << >> ELSE << trim(found[1]) >>

\* original.split(/\n/).filter(l => l.trim()).length
originalLineCount(original) ==
  Len(SelectSeq(split(original, {"\n"}), nonBlank))

\* while (matchEnd > matchStart && !lines[matchEnd].trim()) matchEnd--
RECURSIVE trimMatchEnd(_, _, _)
trimMatchEnd(lines, matchStart, matchEnd) ==
  IF matchEnd > matchStart /\ ~nonBlank(lines[matchEnd + 1])
  THEN trimMatchEnd(lines, matchStart, matchEnd - 1)
  ELSE matchEnd

\* The offset in lines.join('\n') at which line k (0-based) begins.
RECURSIVE lineOffset(_, _)
lineOffset(lines, k) ==
  IF k = 0 THEN 0 ELSE lineOffset(lines, k - 1) + Len(lines[k]) + 1

\* The least element of a non-empty set of integers.
Least(S) == CHOOSE x \in S : \A y \in S : x <= y

NoMatch == [matchStart |-> -1, matchEnd |-> -1]

\* accumulated += (accumulated ? ' ' : '') + line.trim()
appendLine(acc, line) ==
  IF acc = << >> THEN trim(line) ELSE acc \o << " " >> \o trim(line)

\* The value of `accumulated` once the inner loop has added lines i..j.
RECURSIVE accumulated(_, _, _)
accumulated(lines, i, j) ==
  IF j < i THEN << >>
  ELSE appendLine(accumulated(lines, i, j - 1), lines[j + 1])

normalizedAccum(lines, i, j) == collapseWhitespace(accumulated(lines, i, j))

\* The inner loop from start line i leaves at line j: on a match, or
\* because the accumulated text has grown too long.
breaksAt(accum, normalizedOriginal) ==
  \/ accum = normalizedOriginal
  \/ Len(accum) > Len(normalizedOriginal) + AccumulationSlack

\* The line at which the inner loop from start line i leaves early, or -1
\* when it runs to the last line.
firstBreak(lines, i, normalizedOriginal) ==
  IF \E j \in i..(Len(lines) - 1) :
       breaksAt(normalizedAccum(lines, i, j), normalizedOriginal)
  THEN Least({j \in i..(Len(lines) - 1) :
                breaksAt(normalizedAccum(lines, i, j), normalizedOriginal)})
  ELSE -1

matchedBreak(lines, i, normalizedOriginal, j) ==
  IF j >= 0 /\ normalizedAccum(lines, i, j) = normalizedOriginal
  THEN j ELSE -1

\* The inner loop from start line i: the j at which it breaks with a
\* match, or -1 when it runs out of lines or past the slack first.
accumulateFrom(lines, i, normalizedOriginal) ==
  matchedBreak(lines, i, normalizedOriginal,
               firstBreak(lines, i, normalizedOriginal))

\* A block whose end comes before its start.
lastAccumulation(lines, normalizedOriginal, starts) ==
  IF starts = {} THEN NoMatch
  ELSE [matchStart |-> accumulateFrom(lines, Least(starts), normalizedOriginal),
        matchEnd |-> Least(starts)]

\* The outer loop, given the start lines from which the inner loop matches.
firstAccumulation(lines, normalizedOriginal, starts) ==
  IF starts = {} THEN NoMatch
  ELSE [matchStart |-> Least(starts),
        matchEnd |-> accumulateFrom(lines, Least(starts), normalizedOriginal)]

matchNormalized(lines, normalizedOriginal) ==
  firstAccumulation(lines, normalizedOriginal,
    {i \in 0..(Len(lines) - 1) :
       accumulateFrom(lines, i, normalizedOriginal) >= 0})

\* Whitespace-normalized line accumulation: the first start line from which
\* consecutive trimmed lines, joined by spaces, equal the normalized original.
matchLines(lines, original) ==
  matchNormalized(lines, normalizeWhitespace(original))

\* The block that starts at line matchStart and is meant to end span lines
\* further on: not past the last line, and not on a blank line.
blockAt(lines, matchStart, span) ==
  [matchStart |-> matchStart,
   matchEnd |-> trimMatchEnd(lines, matchStart,
                             Min(matchStart + span, Len(lines) - 1))]

\* The scan for the first line that holds the phrase, given the lines
\* (hits) that hold it.
firstBlock(lines, hits, span) ==
  IF hits = {} THEN NoMatch ELSE blockAt(lines, Least(hits), span)

fuzzyBlock(lines, phrase, span) ==
  IF phrase = << >> THEN NoMatch
  ELSE firstBlock(lines,
         {i \in 0..(Len(lines) - 1) :
            includes(normalize(lines[i + 1]),
                     slicePrefix(phrase[1], PhrasePrefixLength))},
         span)

\* The earlier fuzzy matcher: the first line whose normalize()d form holds
\* the first 30 characters of the first phrase of the normalize()d original;
\* the block ends originalLineCount + 2 lines further on.
matchFuzzy(lines, original) ==
  fuzzyBlock(lines, firstPhrase(normalize(original)),
             originalLineCount(original) + 2)

\* The lines whose markdown-stripped form holds the needle.
phraseHits(lines, needle) ==
  {i \in 0..(Len(lines) - 1) : includes(normalizePhrase(lines[i + 1]), needle)}

\* The phrase match: the first line whose markdown-stripped form holds the
\* first 30 characters of the markdown-stripped phrase; the block ends
\* max(2 * originalLineCount, 1) lines further on.
matchPhrase(lines, phrase, original) ==
  firstBlock(lines,
             phraseHits(lines, slicePrefix(normalizePhrase(phrase),
                                           PhrasePrefixLength)),
             Max(originalLineCount(original) * 2, 1))

\* [...lines.slice(0, matchStart), replacement, ...lines.slice(matchEnd + 1)]
\*   .join('\n')
replaceLines(lines, matchStart, matchEnd, replacement) ==
  join(SubSeq(lines, 1, matchStart) \o << replacement >>
         \o SubSeq(lines, matchEnd + 2, Len(lines)), << "\n" >>)

\* What the matching part of accept yields: an error, or the new content,
\* with the strategy that matched and the region [start, end) of the old
\* content that the new content replaces.
Missed(error) ==
  [error |-> error, strategy |-> "none", content |-> << >>,
   start |-> -1, end |-> -1]

exactAt(content, original, replacement, p) ==
  [error |-> "", strategy |-> "exact",
   content |-> replaceAt(content, original, replacement, p),
   start |-> p, end |-> p + Len(original)]

\* content.replace(original, replacement)
exactMatch(content, original, replacement) ==
  exactAt(content, original, replacement, indexOf(content, original))

\* The lines matchStart..matchEnd of m replaced by the replacement; the
\* error when m holds no match.
blockMatch(strategy, lines, m, replacement, error) ==
  IF m.matchStart < 0 THEN Missed(error)
  ELSE [error |-> "", strategy |-> strategy,
        content |-> replaceLines(lines, m.matchStart, m.matchEnd, replacement),
        start |-> lineOffset(lines, m.matchStart),
        end |-> lineOffset(lines, m.matchEnd) + Len(lines[m.matchEnd + 1])]

linesBlock(lines, original, replacement) ==
  blockMatch("lines", lines, matchLines(lines, original),
             replacement, ErrNotFound)

fuzzyMatch(lines, original, replacement) ==
  blockMatch("fuzzy", lines, matchFuzzy(lines, original),
             replacement, ErrNotFoundFuzzy)

phraseBlock(lines, phrase, original, replacement) ==
  IF phrase = << >> THEN Missed(ErrNoPhrase)
  ELSE blockMatch("phrase", lines, matchPhrase(lines, phrase[1], original),
                  replacement, ErrNotFound)

\* The four versions of the diff route's matching: "exact" has the exact
\* match alone, the others fall back on one looser strategy each.
Versions == {"exact", "lines", "fuzzy", "phrase"}

locate(version, content, original, replacement) ==
  IF includes(content, original)
  THEN exactMatch(content, original, replacement)
  ELSE CASE version = "exact" -> Missed(ErrNotFound)
         [] version = "lines" ->
              linesBlock(split(content, {"\n"}), original, replacement)
         [] version = "fuzzy" ->
              fuzzyMatch(split(content, {"\n"}), original, replacement)
         [] OTHER ->
              phraseBlock(split(content, {"\n"}), firstPhrase(original),
                          original, replacement)

\* ------------------------------------------------------------------------
\* The stores, and the requests the handlers are run on
\* ------------------------------------------------------------------------

FileA == "a.md"

FileB == "b.md"

\* A path no document is stored under.
FileMissing == "gone.md"

\* The lines of the document stored under FileA:
\*   0 "to be or to be"   1 "Save  fifteen"   2 "hours"   3 ""
\*   4 "See **the big** picture"   5 "keep me"   6 "and me"
DocALines ==
  << << "t", "o", " ", "b", "e", " ", "o", "r", " ", "t", "o", " ", "b", "e" >>,
     << "S", "a", "v", "e", " ", " ", "f", "i", "f", "t", "e", "e", "n" >>,
     << "h", "o", "u", "r", "s" >>,
     << >>,
     << "S", "e", "e", " ", "*", "*", "t", "h", "e", " ", "b", "i", "g", "*", "*", " ", "p", "i", "c", "t", "u", "r", "e" >>,
     << "k", "e", "e", "p", " ", "m", "e" >>,
     << "a", "n", "d", " ", "m", "e" >> >>

DocA == join(DocALines, << "\n" >>)

\* The document stored under FileB: "to be sure"
DocB == << "t", "o", " ", "b", "e", " ", "s", "u", "r", "e" >>

Why == << "w", "h", "y" >>

\* The bodies of the create requests, each with the diff the agent's answer
\* to it carries (untrimmed, as between the <original> tags; << >> when the
\* answer proposes none).
CreateRequests ==
  {
   \* "to be" -> "2b"
    [filePath |-> FileA, selectionStart |-> 9, selectionEnd |-> 14,
     selectedText |-> << "t", "o", " ", "b", "e" >>,
     diff |-> << [original |-> << "t", "o", " ", "b", "e" >>,
          replacement |-> << "2", "b" >>,
          explanation |-> Why] >>],
   \* "to be or to be" -> "2b", proposed for the selection "to be"
    [filePath |-> FileA, selectionStart |-> 0, selectionEnd |-> 5,
     selectedText |-> << "t", "o", " ", "b", "e" >>,
     diff |-> << [original |-> << "t", "o", " ", "b", "e", " ", "o", "r", " ", "t", "o", " ", "b", "e" >>,
          replacement |-> << "2", "b" >>,
          explanation |-> Why] >>],
   \* "or" -> "$$"
    [filePath |-> FileA, selectionStart |-> 6, selectionEnd |-> 8,
     selectedText |-> << "o", "r" >>,
     diff |-> << [original |-> << "o", "r" >>,
          replacement |-> << "$", "$" >>,
          explanation |-> Why] >>],
   \* "Save fifteen hours" -> "Save time"
    [filePath |-> FileA, selectionStart |-> 15, selectionEnd |-> 34,
     selectedText |-> << "S", "a", "v", "e", " ", "f", "i", "f", "t", "e", "e", "n", " ", "h", "o", "u", "r", "s" >>,
     diff |-> << [original |-> << "S", "a", "v", "e", " ", "f", "i", "f", "t", "e", "e", "n", " ", "h", "o", "u", "r", "s" >>,
          replacement |-> << "S", "a", "v", "e", " ", "t", "i", "m", "e" >>,
          explanation |-> Why] >>],
   \* "See the big picture" -> "Zoom out"
    [filePath |-> FileA, selectionStart |-> 36, selectionEnd |-> 59,
     selectedText |-> << "S", "e", "e", " ", "t", "h", "e", " ", "b", "i", "g", " ", "p", "i", "c", "t", "u", "r", "e" >>,
     diff |-> << [original |-> << "S", "e", "e", " ", "t", "h", "e", " ", "b", "i", "g", " ", "p", "i", "c", "t", "u", "r", "e" >>,
          replacement |-> << "Z", "o", "o", "m", " ", "o", "u", "t" >>,
          explanation |-> Why] >>],
   \* "  " -> "X"
    [filePath |-> FileA, selectionStart |-> 60, selectionEnd |-> 67,
     selectedText |-> << "k", "e", "e", "p", " ", "m", "e" >>,
     diff |-> << [original |-> << " ", " " >>,
          replacement |-> << "X" >>,
          explanation |-> Why] >>],
   \* "to be" -> "2b"
    [filePath |-> FileB, selectionStart |-> 0, selectionEnd |-> 5,
     selectedText |-> << "t", "o", " ", "b", "e" >>,
     diff |-> << [original |-> << "t", "o", " ", "b", "e" >>,
          replacement |-> << "2", "b" >>,
          explanation |-> Why] >>],
    [filePath |-> FileMissing, selectionStart |-> 0, selectionEnd |-> 5,
     selectedText |-> << "t", "o", " ", "b", "e" >>,
     diff |-> << >>]
  }

\* The diffs the agent's answer to a reply may carry.
ReplyDiffs ==
  { << >>,
    \* "gone" -> "x"
    << [original |-> << "g", "o", "n", "e" >>,
        replacement |-> << "x" >>,
        explanation |-> Why] >> }

\* The comments a run keeps in the store at most.
MaxComments == 2

\* The messages a run lets the comments collect at most, all together.
MaxMessages == 7

VARIABLES
  files,     \* the document store: path -> raw text
  comments,  \* the annotation store (.comments.json): sequence of comments
  response,  \* the response of the request handled last
  last,      \* what the request handled last was, and the stores before it
  inflight,  \* the requests being handled concurrently
  lastProposedDiff  \* sdk-agent.ts: the diff of the last propose_diff call

vars == << files, comments, response, last, inflight, lastProposedDiff >>

NoResponse == [status |-> 0, error |-> "", newContent |-> << >>]

\* NextResponse.json({ error }, { status })
ErrorResponse(status, error) ==
  [status |-> status, error |-> error, newContent |-> << >>]

\* NextResponse.json({ comment, newContent }) and NextResponse.json({ comment })
OkResponse(newContent) ==
  [status |-> 200, error |-> "", newContent |-> newContent]

UserMessage == [role |-> "user", content |-> "message"]

AgentMessage == [role |-> "assistant", content |-> "response"]

AcceptedMessage ==
  [role |-> "assistant", content |-> "Change accepted and applied."]

RejectedMessage ==
  [role |-> "assistant",
   content |-> "Understood. What would you like me to suggest instead?"]

\* The diff parsed out of the agent's answer: every part trimmed.
parseDiff(raw) ==
  IF raw = << >> THEN << >>
  ELSE << [original |-> trim(raw[1].original),
           replacement |-> trim(raw[1].replacement),
           explanation |-> trim(raw[1].explanation)] >>

\* comments.findIndex(c => c.id === id)
findIndex(cs, id) ==
  IF \E k \in 1..Len(cs) : cs[k].id = id
  THEN Least({k \in 1..Len(cs) : cs[k].id = id}) - 1
  ELSE -1

\* ------------------------------------------------------------------------
\* The request handlers
\* ------------------------------------------------------------------------

\* What a handler leaves behind: the two stores, its response and, for
\* accept, the strategy that matched ("none" when matching failed, "-" when
\* the handler did no matching) with the region of the old text it replaced.
Outcome(fs, cs, resp, strategy, start, end) ==
  [files |-> fs, comments |-> cs, response |-> resp,
   strategy |-> strategy, start |-> start, end |-> end]

\* A return before anything is written.
Refused(fs, cs, status, error) ==
  Outcome(fs, cs, ErrorResponse(status, error), "-", -1, -1)

\* The return accept takes when the matching of comment commentIndex fails.
notFound(fs, cs, commentIndex, error) ==
  Outcome(fs, cs, ErrorResponse(400, error), "none", -1, -1)

\* A shift that does not look at the document a comment is anchored to.
shiftEveryFile(cs, commentIndex, positionShift, editEnd) ==
  [k \in 1..Len(cs) |->
     IF k - 1 = commentIndex THEN cs[k]
     ELSE IF cs[k].selectionStart > editEnd
     THEN [cs[k] EXCEPT !.selectionStart = @ + positionShift,
                        !.selectionEnd = @ + positionShift]
     ELSE cs[k]]

\* Update positions of comments that come after this edit.
shiftPositions(cs, commentIndex, positionShift, editEnd) ==
  [k \in 1..Len(cs) |->
     IF k - 1 = commentIndex THEN cs[k]
     ELSE IF cs[k].filePath # cs[commentIndex + 1].filePath THEN cs[k]
     ELSE IF cs[k].selectionStart > editEnd
     THEN [cs[k] EXCEPT !.selectionStart = @ + positionShift,
                        !.selectionEnd = @ + positionShift]
     ELSE cs[k]]

\* A resolve that adds no message to the comment.
resolveSilently(comment) ==
  [comment EXCEPT !.status = "resolved", !.proposedDiff = << >>]

\* A resolve that leaves the diff on the comment.
resolveKeepingDiff(comment) ==
  [comment EXCEPT !.status = "resolved",
                  !.messages = Append(@, AcceptedMessage)]

\* Mark comment as resolved, delete its diff, add the system message.
resolveComment(comment) ==
  [comment EXCEPT !.status = "resolved",
                  !.proposedDiff = << >>,
                  !.messages = Append(@, AcceptedMessage)]

\* The diff of a comment that has one.
diffOf(comment) == comment.proposedDiff[1]

\* The comments accept saves once the document is written.
acceptedComments(cs, commentIndex) ==
  [shiftPositions(cs, commentIndex,
                  Len(diffOf(cs[commentIndex + 1]).replacement)
                    - Len(diffOf(cs[commentIndex + 1]).original),
                  cs[commentIndex + 1].selectionEnd)
     EXCEPT ![commentIndex + 1] = resolveComment(cs[commentIndex + 1])]

\* A reject that leaves the diff on the comment.
rejectedKeepingDiff(cs, commentIndex) ==
  [cs EXCEPT ![commentIndex + 1] =
     [@ EXCEPT !.messages = Append(@, RejectedMessage)]]

\* A reject that opens the comment again.
reopenedComments(cs, commentIndex) ==
  [cs EXCEPT ![commentIndex + 1] =
     [@ EXCEPT !.status = "open",
               !.proposedDiff = << >>,
               !.messages = Append(@, RejectedMessage)]]

\* Clear the diff, add the message.
rejectedComments(cs, commentIndex) ==
  [cs EXCEPT ![commentIndex + 1] =
     [@ EXCEPT !.proposedDiff = << >>,
               !.messages = Append(@, RejectedMessage)]]

\* accept, once the matching has come back with found.
applyFound(fs, cs, commentIndex, found) ==
  IF found.error # ""
  THEN notFound(fs, cs, commentIndex, found.error)
  ELSE Outcome([fs EXCEPT ![cs[commentIndex + 1].filePath] = found.content],
               acceptedComments(cs, commentIndex),
               OkResponse(found.content),
               found.strategy, found.start, found.end)

\* action === 'accept'
acceptHandler(version, fs, cs, commentIndex) ==
  IF cs[commentIndex + 1].filePath \notin DOMAIN fs
  THEN Refused(fs, cs, 500, "Failed to handle diff")
  ELSE applyFound(fs, cs, commentIndex,
                  locate(version, fs[cs[commentIndex + 1].filePath],
                         diffOf(cs[commentIndex + 1]).original,
                         diffOf(cs[commentIndex + 1]).replacement))

\* A diff route that looks at the action before it looks for the diff.
handleActionFirst(version, fs, cs, commentIndex, action) ==
  IF commentIndex = -1 THEN Refused(fs, cs, 404, ErrCommentNotFound)
  ELSE IF action \notin {"accept", "reject"}
  THEN Refused(fs, cs, 400, ErrInvalidAction)
  ELSE IF cs[commentIndex + 1].proposedDiff = << >>
  THEN Refused(fs, cs, 400, ErrNoDiff)
  ELSE IF action = "accept"
  THEN acceptHandler(version, fs, cs, commentIndex)
  ELSE Outcome(fs, rejectedComments(cs, commentIndex),
               OkResponse(<< >>), "-", -1, -1)

\* The diff route once findIndex has come back with commentIndex.
handleIndexed(version, fs, cs, commentIndex, action) ==
  IF commentIndex = -1 THEN Refused(fs, cs, 404, ErrCommentNotFound)
  ELSE IF cs[commentIndex + 1].proposedDiff = << >>
  THEN Refused(fs, cs, 400, ErrNoDiff)
  ELSE IF action = "accept"
  THEN acceptHandler(version, fs, cs, commentIndex)
  ELSE IF action = "reject"
  THEN Outcome(fs, rejectedComments(cs, commentIndex),
               OkResponse(<< >>), "-", -1, -1)
  ELSE Refused(fs, cs, 400, ErrInvalidAction)

\* POST of the diff route: accept or reject the diff of comment id.
diffHandler(version, fs, cs, id, action) ==
  handleIndexed(version, fs, cs, findIndex(cs, id), action)

\* POST of the comments route: create a comment; the agent's answer to it
\* carries the diff request.diff.
createHandler(fs, cs, request) ==
  IF request.filePath \notin DOMAIN fs
  THEN Refused(fs, cs, 500, "Failed to create comment")
  ELSE Outcome(fs,
               Append(cs, [id |-> Len(cs) + 1,
                           filePath |-> request.filePath,
                           selectionStart |-> request.selectionStart,
                           selectionEnd |-> request.selectionEnd,
                           selectedText |-> request.selectedText,
                           status |-> "open",
                           messages |-> << UserMessage, AgentMessage >>,
                           proposedDiff |-> parseDiff(request.diff)]),
               OkResponse(<< >>), "-", -1, -1)

\* POST of the reply route: add the user's message to comment id, drop its
\* diff, add the agent's answer and the diff rawDiff that it carries.
replyIndexed(fs, cs, commentIndex, rawDiff) ==
  IF commentIndex = -1 THEN Refused(fs, cs, 404, ErrCommentNotFound)
  ELSE IF cs[commentIndex + 1].filePath \notin DOMAIN fs
  THEN Refused(fs, cs, 500, "Failed to reply")
  ELSE Outcome(fs,
               [cs EXCEPT ![commentIndex + 1] =
                  [@ EXCEPT !.messages =
                              Append(Append(@, UserMessage), AgentMessage),
                            !.proposedDiff = parseDiff(rawDiff)]],
               OkResponse(<< >>), "-", -1, -1)

replyHandler(fs, cs, id, rawDiff) ==
  replyIndexed(fs, cs, findIndex(cs, id), rawDiff)

\* ------------------------------------------------------------------------
\* Requests handled one at a time
\* ------------------------------------------------------------------------

Init ==
  /\ files = [f \in {FileA, FileB} |-> IF f = FileA THEN DocA ELSE DocB]
  /\ comments = << >>
  /\ response = NoResponse
  /\ last = [op |-> "none", id |-> 0, strategy |-> "-",
             start |-> -1, end |-> -1,
             files |-> [f \in {FileA, FileB} |-> IF f = FileA THEN DocA ELSE DocB],
             comments |-> << >>]
  /\ inflight = << >>
  /\ lastProposedDiff = << >>

\* The number of messages the comments cs hold.
RECURSIVE messageCount(_)
messageCount(cs) ==
  IF cs = << >> THEN 0
  ELSE Len(cs[1].messages) + messageCount(Tail(cs))

\* The run keeps within its bounds.
Bounded(out) ==
  /\ Len(out.comments) <= MaxComments
  /\ messageCount(out.comments) <= MaxMessages

\* The handler's outcome becomes the state; last remembers the request and
\* the stores it found.
Handled(op, id, out) ==
  /\ Bounded(out)
  /\ files' = out.files
  /\ comments' = out.comments
  /\ response' = out.response
  /\ last' = [op |-> op, id |-> id,
              strategy |-> out.strategy, start |-> out.start, end |-> out.end,
              files |-> files, comments |-> comments]
  /\ UNCHANGED << inflight, lastProposedDiff >>

\* The ids requests name: those of the stored comments and one unknown.
RequestIds == 1..(Len(comments) + 1)

Create ==
  /\ Len(comments) < MaxComments
  /\ \E request \in CreateRequests :
       Handled("create", Len(comments) + 1,
               createHandler(files, comments, request))

Reply ==
  \E id \in RequestIds, rawDiff \in ReplyDiffs :
    Handled("reply", id, replyHandler(files, comments, id, rawDiff))

\* Accept under any of the versions of the diff route.
Accept ==
  \E version \in Versions, id \in RequestIds :
    Handled("accept", id,
            diffHandler(version, files, comments, id, "accept"))

\* Reject and a request with an unknown action: alike in every version.
Decline ==
  \E id \in RequestIds, action \in {"reject", "delete"} :
    Handled(action, id,
            diffHandler("phrase", files, comments, id, action))

Next ==
  \/ Create
  \/ Reply
  \/ Accept
  \/ Decline

Spec == Init /\ [][Next]_vars

\* ------------------------------------------------------------------------
\* Two accept requests handled concurrently
\* ------------------------------------------------------------------------

\* The create requests that leave a comment with a proposal behind.
ProposingRequests ==
  {r \in CreateRequests : r.filePath \in {FileA, FileB} /\ r.diff # << >>}

\* The stores after the two create requests first and second.
created(first, second) ==
  createHandler([f \in {FileA, FileB} |-> IF f = FileA THEN DocA ELSE DocB],
                createHandler([f \in {FileA, FileB} |->
                                 IF f = FileA THEN DocA ELSE DocB],
                              << >>, first).comments,
                second)

\* An accept request that has not yet loaded anything; pc is the await it
\* is to pass next.
arrived(id) ==
  [id |-> id, pc |-> "load", comments |-> << >>,
   found |-> Missed("")]

\* Two comments with a proposal each are stored, and an accept request for
\* each has arrived; last keeps the stores the requests found.
InitConc ==
  \E first \in ProposingRequests, second \in ProposingRequests :
    /\ files = created(first, second).files
    /\ comments = created(first, second).comments
    /\ response = NoResponse
    /\ last = [op |-> "concurrent", id |-> 0, strategy |-> "-",
               start |-> -1, end |-> -1,
               files |-> created(first, second).files,
               comments |-> created(first, second).comments]
    /\ inflight = << arrived(1), arrived(2) >>
    /\ lastProposedDiff = << >>

\* The comment a request that has passed loadComments is about.
own(request) == request.comments[findIndex(request.comments, request.id) + 1]

\* const comments = await loadComments()
Load ==
  \E r \in 1..Len(inflight) :
    /\ inflight[r].pc = "load"
    /\ inflight' = [inflight EXCEPT ![r].comments = comments, ![r].pc = "read"]
    /\ UNCHANGED << files, comments, response, last, lastProposedDiff >>

\* let content = await fs.readFile(filePath, 'utf-8'), and the matching on
\* it, which runs before the next await.
Read ==
  \E r \in 1..Len(inflight) :
    /\ inflight[r].pc = "read"
    /\ own(inflight[r]).proposedDiff # << >>
    /\ inflight' =
         [inflight EXCEPT
            ![r].found = locate("phrase", files[own(inflight[r]).filePath],
                                diffOf(own(inflight[r])).original,
                                diffOf(own(inflight[r])).replacement),
            ![r].pc = "matched"]
    /\ UNCHANGED << files, comments, response, last, lastProposedDiff >>

\* The return with status 400 when the matching failed.
Fail ==
  \E r \in 1..Len(inflight) :
    /\ inflight[r].pc = "matched"
    /\ inflight[r].found.error # ""
    /\ inflight' = [inflight EXCEPT ![r].pc = "done"]
    /\ response' = ErrorResponse(400, inflight[r].found.error)
    /\ UNCHANGED << files, comments, last, lastProposedDiff >>

\* await fs.writeFile(filePath, content, 'utf-8')
Write ==
  \E r \in 1..Len(inflight) :
    /\ inflight[r].pc = "matched"
    /\ inflight[r].found.error = ""
    /\ files' = [files EXCEPT ![own(inflight[r]).filePath] =
                   inflight[r].found.content]
    /\ inflight' = [inflight EXCEPT ![r].pc = "save"]
    /\ UNCHANGED << comments, response, last, lastProposedDiff >>

\* The position shift and the resolution on the comments the request
\* loaded, then await saveComments(comments) and the response.
Save ==
  \E r \in 1..Len(inflight) :
    /\ inflight[r].pc = "save"
    /\ comments' = acceptedComments(inflight[r].comments,
                                    findIndex(inflight[r].comments,
                                              inflight[r].id))
    /\ response' = OkResponse(inflight[r].found.content)
    /\ inflight' = [inflight EXCEPT ![r].pc = "done"]
    /\ UNCHANGED << files, last, lastProposedDiff >>

NextConc ==
  \/ Load
  \/ Read
  \/ Fail
  \/ Write
  \/ Save

SpecConc == InitConc /\ [][NextConc]_vars

\* ------------------------------------------------------------------------
\* An accept and a reply in flight together
\* ------------------------------------------------------------------------

\* A reply request that has not yet loaded anything.
replying(id) ==
  [id |-> id, pc |-> "replyLoad", comments |-> << >>,
   found |-> Missed("")]

\* Two comments with a proposal each are stored; an accept request for the
\* first and a reply request for either have arrived.
InitRace ==
  \E first \in ProposingRequests, second \in ProposingRequests, id \in 1..2 :
    /\ files = created(first, second).files
    /\ comments = created(first, second).comments
    /\ response = NoResponse
    /\ last = [op |-> "race", id |-> 1, strategy |-> "-",
               start |-> -1, end |-> -1,
               files |-> created(first, second).files,
               comments |-> created(first, second).comments]
    /\ inflight = << arrived(1), replying(id) >>
    /\ lastProposedDiff = << >>

\* The return with status 400 when the comment the accept loaded has no
\* proposed diff.
Refuse ==
  \E r \in 1..Len(inflight) :
    /\ inflight[r].pc = "read"
    /\ own(inflight[r]).proposedDiff = << >>
    /\ response' = ErrorResponse(400, ErrNoDiff)
    /\ inflight' = [inflight EXCEPT ![r].pc = "refused"]
    /\ UNCHANGED << files, comments, last, lastProposedDiff >>

\* await saveComments(comments) throws after the document was written; the
\* catch answers 500.
SaveFails ==
  \E r \in 1..Len(inflight) :
    /\ inflight[r].pc = "save"
    /\ response' = ErrorResponse(500, "Failed to handle diff")
    /\ inflight' = [inflight EXCEPT ![r].pc = "failed"]
    /\ UNCHANGED << files, comments, last, lastProposedDiff >>

\* The reply route: const comments = await loadComments()
ReplyLoad ==
  \E r \in 1..Len(inflight) :
    /\ inflight[r].pc = "replyLoad"
    /\ inflight' = [inflight EXCEPT ![r].comments = comments,
                                    ![r].pc = "replyRead"]
    /\ UNCHANGED << files, comments, response, last, lastProposedDiff >>

\* await getFileContent(comment.filePath); the user's message is added to
\* the loaded comment and its diff is dropped.
ReplyRead ==
  \E r \in 1..Len(inflight) :
    /\ inflight[r].pc = "replyRead"
    /\ own(inflight[r]).filePath \in DOMAIN files
    /\ inflight' =
         [inflight EXCEPT
            ![r].comments[findIndex(inflight[r].comments, inflight[r].id) + 1] =
               [@ EXCEPT !.messages = Append(@, UserMessage),
                         !.proposedDiff = << >>],
            ![r].pc = "replyAsk"]
    /\ UNCHANGED << files, comments, response, last, lastProposedDiff >>

\* await getAgentResponse(...): the agent's message is added and the diff
\* it proposes, if any, is attached.
ReplyAnswer ==
  \E r \in 1..Len(inflight), rawDiff \in ReplyDiffs :
    /\ inflight[r].pc = "replyAsk"
    /\ inflight' =
         [inflight EXCEPT
            ![r].comments[findIndex(inflight[r].comments, inflight[r].id) + 1] =
               [@ EXCEPT !.messages = Append(@, AgentMessage),
                         !.proposedDiff = parseDiff(rawDiff)],
            ![r].pc = "replySave"]
    /\ UNCHANGED << files, comments, response, last, lastProposedDiff >>

\* await saveComments(comments) with the comments the reply loaded, and the
\* response.
ReplySave ==
  \E r \in 1..Len(inflight) :
    /\ inflight[r].pc = "replySave"
    /\ comments' = inflight[r].comments
    /\ response' = OkResponse(<< >>)
    /\ inflight' = [inflight EXCEPT ![r].pc = "replied"]
    /\ UNCHANGED << files, last, lastProposedDiff >>

NextRace ==
  \/ Load
  \/ Refuse
  \/ Read
  \/ Fail
  \/ Write
  \/ Save
  \/ SaveFails
  \/ ReplyLoad
  \/ ReplyRead
  \/ ReplyAnswer
  \/ ReplySave

SpecRace == InitRace /\ [][NextRace]_vars

\* ------------------------------------------------------------------------
\* Accept on a range of documents and excerpts
\* ------------------------------------------------------------------------

\* The characters the short documents are written in.
Alphabet == {" ", "-", "a", "*"}

\* The length of the short documents, at most.
MaxLen == 4

\* Every document of at most MaxLen characters of Alphabet.
ShortTexts == UNION {[1..n -> Alphabet] : n \in 0..MaxLen}

\* Documents with the markup the rendering layer loses.
ScenarioTexts ==
  {
   \* a bullet item wrapped over two lines: - Save 15 hours\n  per week\nend of list
   << "-", " ", "S", "a", "v", "e", " ", "1", "5", " ", "h", "o", "u", "r", "s", "\n", " ", " ", "p", "e", "r", " ", "w", "e", "e", "k", "\n", "e", "n", "d", " ", "o", "f", " ", "l", "i", "s", "t" >>,
   \* the same item without its marker: Save 15 hours\n  per week
   << "S", "a", "v", "e", " ", "1", "5", " ", "h", "o", "u", "r", "s", "\n", " ", " ", "p", "e", "r", " ", "w", "e", "e", "k" >>,
   \* a line that is a markdown link: [click here](http://x)\nsoon
   << "[", "c", "l", "i", "c", "k", " ", "h", "e", "r", "e", "]", "(", "h", "t", "t", "p", ":", "/", "/", "x", ")", "\n", "s", "o", "o", "n" >>,
   \* a line with a link inside: go [on](u) now\nsoon
   << "g", "o", " ", "[", "o", "n", "]", "(", "u", ")", " ", "n", "o", "w", "\n", "s", "o", "o", "n" >>,
   \* two sentences: The quick fox.\nIt jumps.
   << "T", "h", "e", " ", "q", "u", "i", "c", "k", " ", "f", "o", "x", ".", "\n", "I", "t", " ", "j", "u", "m", "p", "s", "." >>,
   \* a wrapped item between blank lines: intro\n\nSave 15 hours\n  per week\n\nend
   << "i", "n", "t", "r", "o", "\n", "\n", "S", "a", "v", "e", " ", "1", "5", " ", "h", "o", "u", "r", "s", "\n", " ", " ", "p", "e", "r", " ", "w", "e", "e", "k", "\n", "\n", "e", "n", "d" >>,
   \* a line with bold text, and an empty last line: See **the big** picture\n
   << "S", "e", "e", " ", "*", "*", "t", "h", "e", " ", "b", "i", "g", "*", "*", " ", "p", "i", "c", "t", "u", "r", "e", "\n" >>,
   \* a numbered item in capitals, and four more lines: 1. Save 15 Hours Now\nnext\nmore\nlast\nend
   << "1", ".", " ", "S", "a", "v", "e", " ", "1", "5", " ", "H", "o", "u", "r", "s", " ", "N", "o", "w", "\n", "n", "e", "x", "t", "\n", "m", "o", "r", "e", "\n", "l", "a", "s", "t", "\n", "e", "n", "d" >>
  }

\* The excerpts the proposals name as their original.
Excerpts ==
  {
   \* Save 15 hours per week
   << "S", "a", "v", "e", " ", "1", "5", " ", "h", "o", "u", "r", "s", " ", "p", "e", "r", " ", "w", "e", "e", "k" >>,
   \* click here
   << "c", "l", "i", "c", "k", " ", "h", "e", "r", "e" >>,
   \* go on now
   << "g", "o", " ", "o", "n", " ", "n", "o", "w" >>,
   \* The quick fox.
   << "T", "h", "e", " ", "q", "u", "i", "c", "k", " ", "f", "o", "x", "." >>,
   \* a
   << "a" >>,
   \* See the big picture
   << "S", "e", "e", " ", "t", "h", "e", " ", "b", "i", "g", " ", "p", "i", "c", "t", "u", "r", "e" >>,
   \* save 15 hours now
   << "s", "a", "v", "e", " ", "1", "5", " ", "h", "o", "u", "r", "s", " ", "n", "o", "w" >>
  }

\* The body of a create request on FileA whose answer proposes to replace
\* original by "new".
proposing(original) ==
  [filePath |-> FileA, selectionStart |-> 0, selectionEnd |-> Len(original),
   selectedText |-> original,
   diff |-> << [original |-> original,
                replacement |-> << "n", "e", "w" >>,
                explanation |-> Why] >>]

\* The stores once a comment proposing to replace original has been
\* created on the document text.
drafted(text, original) ==
  createHandler([f \in {FileA, FileB} |-> IF f = FileA THEN text ELSE DocB],
                << >>, proposing(original))

InitMatch ==
  \E text \in ScenarioTexts \cup ShortTexts, original \in Excerpts :
    /\ files = drafted(text, original).files
    /\ comments = drafted(text, original).comments
    /\ response = NoResponse
    /\ last = [op |-> "none", id |-> 0, strategy |-> "-",
               start |-> -1, end |-> -1,
               files |-> drafted(text, original).files,
               comments |-> drafted(text, original).comments]
    /\ inflight = << >>
    /\ lastProposedDiff = << >>

NextMatch ==
  \/ Accept
  \/ Decline

SpecMatch == InitMatch /\ [][NextMatch]_vars

\* ------------------------------------------------------------------------
\* Streaming create requests handled concurrently
\* ------------------------------------------------------------------------

\* The events the agent produces for one request at most, before it ends.
MaxEvents == 2

\* The tools the agent may call.
AgentTools == {"propose_diff", "Read"}

\* args of the propose_diff call the agent makes while it answers request r.
toolDiff(r) ==
  [original |-> << "o", "l", "d" >>,
   replacement |-> << "n", "e", "w" >>,
   explanation |-> IF r = 1 THEN << "1" >> ELSE << "2" >>]

\* An event put first on the stream.
enqueueFirst(sent, event) == << event >> \o sent

\* controller.enqueue(encoder.encode(...)): the events sent so far, then
\* event.
enqueue(sent, event) == Append(sent, event)

\* const comment: Comment = { id: commentId, ..., messages: [userMessage] }
streamComment(id, body) ==
  [id |-> id,
   filePath |-> body.filePath,
   selectionStart |-> body.selectionStart,
   selectionEnd |-> body.selectionEnd,
   selectedText |-> body.selectedText,
   status |-> "open",
   messages |-> << UserMessage >>,
   proposedDiff |-> << >>]

\* fullResponse.match(/<propose_diff>...<\/propose_diff>/): fullResponse
\* is kept as the sequence of its text chunks, each by the tagged diff it
\* holds (<< >> when it holds none); the first tagged diff is the match.
diffMatch(fullResponse) ==
  IF \E k \in 1..Len(fullResponse) : fullResponse[k] # << >>
  THEN fullResponse[Least({k \in 1..Len(fullResponse) :
                             fullResponse[k] # << >>})]
  ELSE << >>

\* The assistant message added and the diff parsed from the text attached.
answered(comment, fullResponse) ==
  [comment EXCEPT !.messages = Append(@, AgentMessage),
                  !.proposedDiff = parseDiff(diffMatch(fullResponse))]

\* A streaming create request that has not yet loaded anything; pc is the
\* await it is to pass next. produced: the events of the agent so far;
\* proposed: the diffs of its propose_diff calls; ended: the proposedDiff
\* the generator's 'done' event carried, once it has been yielded; sent:
\* the events put on the response stream.
streaming(id, body) ==
  [id |-> id, pc |-> "load", body |-> body, comments |-> << >>,
   comment |-> << >>, fullResponse |-> << >>, produced |-> << >>,
   proposed |-> << >>, ended |-> << >>, sent |-> << >>]

\* The bodies of the streaming create requests.
StreamBodies ==
  {[filePath |-> f, selectionStart |-> 0, selectionEnd |-> 5,
    selectedText |-> << "t", "o", " ", "b", "e" >>] :
     f \in {FileA, FileMissing}}

\* Two streaming create requests have arrived; the store is empty.
InitStream ==
  \E first \in StreamBodies, second \in StreamBodies :
    /\ files = [f \in {FileA, FileB} |-> IF f = FileA THEN DocA ELSE DocB]
    /\ comments = << >>
    /\ response = NoResponse
    /\ last = [op |-> "streaming", id |-> 0, strategy |-> "-",
               start |-> -1, end |-> -1,
               files |-> [f \in {FileA, FileB} |->
                            IF f = FileA THEN DocA ELSE DocB],
               comments |-> << >>]
    /\ inflight = << streaming(1, first), streaming(2, second) >>
    /\ lastProposedDiff = << >>

\* const comments = await loadComments()
StreamLoad ==
  \E r \in 1..Len(inflight) :
    /\ inflight[r].pc = "load"
    /\ inflight' = [inflight EXCEPT ![r].comments = comments, ![r].pc = "open"]
    /\ UNCHANGED << files, comments, response, last, lastProposedDiff >>

\* getFileContent throws: the handler answers 500 and opens no stream.
StreamRefuse ==
  \E r \in 1..Len(inflight) :
    /\ inflight[r].pc = "open"
    /\ inflight[r].body.filePath \notin DOMAIN files
    /\ inflight' = [inflight EXCEPT ![r].pc = "refused"]
    /\ response' = ErrorResponse(500, "Failed to create comment")
    /\ UNCHANGED << files, comments, last, lastProposedDiff >>

\* getFileContent has returned: the comment is made, the stream starts,
\* comment_id is sent, and the first next() of streamAgentResponse resets
\* the proposed diff.
StreamOpen ==
  \E r \in 1..Len(inflight) :
    /\ inflight[r].pc = "open"
    /\ inflight[r].body.filePath \in DOMAIN files
    /\ inflight' =
         [inflight EXCEPT
            ![r].comment = streamComment(inflight[r].id, inflight[r].body),
            ![r].sent = enqueue(@, "comment_id"),
            ![r].pc = "agent"]
    /\ lastProposedDiff' = << >>
    /\ UNCHANGED << files, comments, response, last >>

\* The agent yields a text block, with or without a tagged diff in it; the
\* handler adds it to fullResponse and sends a text event.
AgentText ==
  \E r \in 1..Len(inflight), tagged \in ReplyDiffs :
    /\ inflight[r].pc = "agent"
    /\ Len(inflight[r].produced) < MaxEvents
    /\ inflight' =
         [inflight EXCEPT
            ![r].fullResponse = Append(@, tagged),
            ![r].produced = Append(@, "text"),
            ![r].sent = enqueue(@, "text")]
    /\ UNCHANGED << files, comments, response, last, lastProposedDiff >>

\* The agent calls a tool: the handler sends a tool event, and the
\* propose_diff tool stores its arguments in lastProposedDiff.
AgentTool ==
  \E r \in 1..Len(inflight), name \in AgentTools :
    /\ inflight[r].pc = "agent"
    /\ Len(inflight[r].produced) < MaxEvents
    /\ inflight' =
         [inflight EXCEPT
            ![r].produced = Append(@, "tool_use"),
            ![r].proposed = IF name = "propose_diff"
                            THEN Append(@, toolDiff(r)) ELSE @,
            ![r].sent = enqueue(@, "tool")]
    /\ lastProposedDiff' = IF name = "propose_diff"
                           THEN << toolDiff(r) >> ELSE lastProposedDiff
    /\ UNCHANGED << files, comments, response, last >>

\* The agent's result is not a success: an error event is yielded and
\* sent on.
AgentError ==
  \E r \in 1..Len(inflight) :
    /\ inflight[r].pc = "agent"
    /\ Len(inflight[r].produced) < MaxEvents
    /\ inflight' =
         [inflight EXCEPT
            ![r].produced = Append(@, "error"),
            ![r].sent = enqueue(@, "error")]
    /\ UNCHANGED << files, comments, response, last, lastProposedDiff >>

\* query throws: streamAgentResponse yields an error event from its catch
\* and ends without a 'done' event.
AgentThrow ==
  \E r \in 1..Len(inflight) :
    /\ inflight[r].pc = "agent"
    /\ inflight' =
         [inflight EXCEPT
            ![r].produced = Append(@, "error"),
            ![r].sent = enqueue(@, "error"),
            ![r].pc = "save"]
    /\ UNCHANGED << files, comments, response, last, lastProposedDiff >>

\* The agent has ended: streamAgentResponse yields 'done' with
\* lastProposedDiff; the handler has no branch for it.
AgentDone ==
  \E r \in 1..Len(inflight) :
    /\ inflight[r].pc = "agent"
    /\ inflight' = [inflight EXCEPT ![r].ended = << lastProposedDiff >>,
                                    ![r].pc = "save"]
    /\ UNCHANGED << files, comments, response, last, lastProposedDiff >>

\* The diff is parsed from the text, the assistant message added, the
\* comment pushed on the comments the request loaded, and those saved.
StreamSave ==
  \E r \in 1..Len(inflight) :
    /\ inflight[r].pc = "save"
    /\ comments' = Append(inflight[r].comments,
                          answered(inflight[r].comment,
                                   inflight[r].fullResponse))
    /\ inflight' =
         [inflight EXCEPT
            ![r].comment = answered(@, inflight[r].fullResponse),
            ![r].pc = "saved"]
    /\ UNCHANGED << files, response, last, lastProposedDiff >>

\* saveComments throws: the catch sends an error event and closes.
StreamSaveFails ==
  \E r \in 1..Len(inflight) :
    /\ inflight[r].pc = "save"
    /\ inflight' =
         [inflight EXCEPT
            ![r].comment = answered(@, inflight[r].fullResponse),
            ![r].sent = enqueue(@, "error"),
            ![r].pc = "failed"]
    /\ UNCHANGED << files, comments, response, last, lastProposedDiff >>

\* The final event with the comment is sent and the stream closed.
StreamDone ==
  \E r \in 1..Len(inflight) :
    /\ inflight[r].pc = "saved"
    /\ inflight' = [inflight EXCEPT ![r].sent = enqueue(@, "done"),
                                    ![r].pc = "closed"]
    /\ UNCHANGED << files, comments, response, last, lastProposedDiff >>

NextStream ==
  \/ StreamLoad
  \/ StreamRefuse
  \/ StreamOpen
  \/ AgentText
  \/ AgentTool
  \/ AgentError
  \/ AgentThrow
  \/ AgentDone
  \/ StreamSave
  \/ StreamSaveFails
  \/ StreamDone

SpecStream == InitStream /\ [][NextStream]_vars

\* ------------------------------------------------------------------------
\* Properties of accept: what the request handled last found and left
\* ------------------------------------------------------------------------

\* The request handled last named a stored comment.
Known == findIndex(last.comments, last.id) >= 0

\* That comment, as the request found it.
Target == last.comments[findIndex(last.comments, last.id) + 1]

\* The proposal it carried.
Proposal == diffOf(Target)

\* Its document before and after the request.
OldText == last.files[Target.filePath]

NewText == files[Target.filePath]

\* The request was an accept that got as far as the matching.
AcceptTried ==
  /\ last.op = "accept"
  /\ Known
  /\ Target.proposedDiff # << >>
  /\ Target.filePath \in DOMAIN last.files

\* The request was an accept that wrote the document.
AcceptDone == AcceptTried /\ response.status = 200

\* The text of the document the accept replaced.
ReplacedRegion == SubSeq(OldText, last.start + 1, last.end)

\* The comments other than the accepted one that are anchored to its
\* document.
Neighbours ==
  {k \in 1..Len(last.comments) :
     /\ k # findIndex(last.comments, last.id) + 1
     /\ last.comments[k].filePath = Target.filePath}

\* Comment k does not have the offsets it had before the request.
Moved(k) ==
  \/ comments[k].selectionStart # last.comments[k].selectionStart
  \/ comments[k].selectionEnd # last.comments[k].selectionEnd

\* The request changed neither store.
NothingChanged == files = last.files /\ comments = last.comments

\* C1: when the proposal's original is not empty and occurs literally in
\* the document, accept succeeds by the exact match at the leftmost
\* occurrence: no looser strategy is used, the text before that occurrence
\* and the text after it (every other occurrence included) are unchanged,
\* and so is every other document.
C1_ExactLeftmost ==
  (AcceptTried /\ Proposal.original # << >>
     /\ includes(OldText, Proposal.original))
  => /\ response.status = 200
     /\ last.strategy = "exact"
     /\ occursAt(OldText, Proposal.original, last.start)
     /\ \A q \in 0..(last.start - 1) :
          ~occursAt(OldText, Proposal.original, q)
     /\ last.end = last.start + Len(Proposal.original)
     /\ Len(NewText) >= last.start + (Len(OldText) - last.end)
     /\ SubSeq(NewText, 1, last.start) = SubSeq(OldText, 1, last.start)
     /\ sliceFrom(NewText, Len(NewText) - (Len(OldText) - last.end))
          = sliceFrom(OldText, last.end)
     /\ \A f \in DOMAIN files \ {Target.filePath} : files[f] = last.files[f]

\* An exact match was accepted in a document that holds the original a
\* second time, further right.
C1_Witness ==
  /\ AcceptDone
  /\ last.strategy = "exact"
  /\ Proposal.original # << >>
  /\ \E q \in (last.start + 1)..Len(OldText) :
       occursAt(OldText, Proposal.original, q)

\* No strategy of the cascade (exact, line accumulation, phrase) locates
\* the original in the document.
NoStrategyLocates ==
  /\ ~includes(OldText, Proposal.original)
  /\ matchLines(split(OldText, {"\n"}), Proposal.original).matchStart < 0
  /\ \/ firstPhrase(Proposal.original) = << >>
     \/ matchPhrase(split(OldText, {"\n"}),
                    firstPhrase(Proposal.original)[1],
                    Proposal.original).matchStart < 0

\* C2: when no strategy locates the proposal's original in the document,
\* accept returns the original-text-not-found error and changes nothing:
\* the documents and every comment are as they were.
C2_NoMatchSafety ==
  (AcceptTried /\ NoStrategyLocates)
  => /\ response.status = 400
     /\ response.error \in {ErrNotFound, ErrNotFoundFuzzy}
     /\ NothingChanged

\* C3: after a successful accept every comment that is shifted has its
\* two offsets at their previous values plus the length of the replacement
\* minus the length of the region of the document that was replaced.
C3_DeltaCorrect ==
  AcceptDone
  => \A k \in Neighbours :
       Moved(k)
       => /\ comments[k].selectionStart
               = last.comments[k].selectionStart
                   + Len(Proposal.replacement) - (last.end - last.start)
          /\ comments[k].selectionEnd
               = last.comments[k].selectionEnd
                   + Len(Proposal.replacement) - (last.end - last.start)

\* C4: on a successful accept that changes the length of the text, another
\* comment on the same document is shifted if and only if it starts
\* strictly after the end of the region of the document that was edited.
C4_ShiftedIffAfterEdit ==
  (AcceptDone /\ Len(Proposal.replacement) # Len(Proposal.original))
  => \A k \in Neighbours :
       Moved(k) <=> last.comments[k].selectionStart > last.end

\* C5: once a comment is resolved, no later accept or reject, of it or of
\* another comment, changes any of its fields.
C5_ResolvedFrozen ==
  last.op \in {"accept", "reject"}
  => \A k \in 1..Len(last.comments) :
       last.comments[k].status = "resolved"
       => comments[k] = last.comments[k]

\* C6: on an exact match at offset p the new text is the old text up to p,
\* the replacement verbatim, and the old text from p + len(original) on, so
\* its length is len(old) + len(replacement) - len(original).
C6_VerbatimSplice ==
  (AcceptDone /\ last.strategy = "exact")
  => /\ NewText = SubSeq(OldText, 1, last.start) \o Proposal.replacement
                    \o sliceFrom(OldText, last.end)
     /\ Len(NewText) = Len(OldText) + Len(Proposal.replacement)
                         - Len(Proposal.original)

\* The strategy the cascade exact, line accumulation, phrase settles on
\* for the request handled last.
CascadeStrategy ==
  IF includes(OldText, Proposal.original) THEN "exact"
  ELSE IF matchLines(split(OldText, {"\n"}),
                     Proposal.original).matchStart >= 0 THEN "lines"
  ELSE IF ~NoStrategyLocates THEN "phrase"
  ELSE "none"

\* C7: accept tries the exact match, then the line accumulation, then the
\* phrase match, and the first of them that succeeds decides the outcome.
C7_CascadeOrder == AcceptTried => last.strategy = CascadeStrategy

\* C8: a successful accept replaces only a region that is the proposal's
\* original up to white space, markdown markup and list markers; when
\* there is no such region it fails and leaves the document as it was.
C8_NeverGuesses ==
  AcceptDone
  => normalizePhrase(ReplacedRegion) = normalizePhrase(Proposal.original)

\* C10: accept of a proposal whose original is the empty string is refused
\* before any matching is tried, and changes nothing.
C10_EmptyOriginalRefused ==
  (AcceptTried /\ Proposal.original = << >>)
  => /\ response.status = 400
     /\ last.strategy = "-"
     /\ NothingChanged

\* The comment the request handled last named, as the request left it.
TargetNow == comments[findIndex(last.comments, last.id) + 1]

\* The request added exactly one message to its comment, written by the
\* assistant.
OneAssistantMessage ==
  /\ Len(TargetNow.messages) = Len(Target.messages) + 1
  /\ SubSeq(TargetNow.messages, 1, Len(Target.messages)) = Target.messages
  /\ TargetNow.messages[Len(TargetNow.messages)].role = "assistant"

\* C11: after a successful accept the accepted comment is resolved and has
\* no proposal, its messages are its previous messages followed by exactly
\* one message of the assistant, and the text returned to the caller is the
\* text that was written to the document.
C11_AcceptResolves ==
  AcceptDone
  => /\ TargetNow.status = "resolved"
     /\ TargetNow.proposedDiff = << >>
     /\ OneAssistantMessage
     /\ response.newContent = NewText

\* An accept by a strategy that replaces whole lines changed the document
\* and returned its new text.
C11_Witness ==
  /\ AcceptDone
  /\ last.strategy \in {"lines", "fuzzy", "phrase"}
  /\ NewText # OldText
  /\ response.newContent # << >>

\* The request was a reject of a stored comment that has a proposal.
RejectTried ==
  /\ last.op = "reject"
  /\ Known
  /\ Target.proposedDiff # << >>

\* C12: reject of a comment leaves every document and the offsets of every
\* comment unchanged, clears the comment's proposal, adds exactly one
\* message of the assistant to it, leaves its status and its other fields
\* as they were, and changes no other comment.
C12_RejectFrame ==
  RejectTried
  => /\ response.status = 200
     /\ files = last.files
     /\ Len(comments) = Len(last.comments)
     /\ \A k \in 1..Len(last.comments) :
          k # findIndex(last.comments, last.id) + 1
          => comments[k] = last.comments[k]
     /\ TargetNow.proposedDiff = << >>
     /\ OneAssistantMessage
     /\ TargetNow.status = Target.status
     /\ [TargetNow EXCEPT !.proposedDiff = Target.proposedDiff,
                          !.messages = Target.messages] = Target

\* An open comment was rejected while another comment is anchored to the
\* same document.
C12_Witness ==
  /\ RejectTried
  /\ Target.status = "open"
  /\ Neighbours # {}
  /\ TargetNow.proposedDiff = << >>

\* Every comment of cs has offsets with 0 <= selectionStart <= selectionEnd.
WellAnchored(cs) ==
  \A k \in 1..Len(cs) :
    /\ 0 <= cs[k].selectionStart
    /\ cs[k].selectionStart <= cs[k].selectionEnd

\* C16: accept preserves the offset invariant: when every comment has
\* 0 <= selectionStart <= selectionEnd before a successful accept, every
\* comment has it afterwards, whatever the length of the replacement.
C16_OffsetsInRange ==
  (AcceptDone /\ WellAnchored(last.comments)) => WellAnchored(comments)

\* C17: status is monotonic: a comment is created open, a comment that is
\* resolved before a create, reply, accept or reject is resolved after it,
\* and no request removes a comment.
C17_StatusMonotonic ==
  /\ Len(comments) >= Len(last.comments)
  /\ \A k \in 1..Len(last.comments) :
       /\ comments[k].id = last.comments[k].id
       /\ last.comments[k].status = "resolved"
            => comments[k].status = "resolved"
  /\ \A k \in (Len(last.comments) + 1)..Len(comments) :
       comments[k].status = "open"

\* A reply to a resolved comment was stored, with a new proposal.
C17_Witness ==
  /\ last.op = "reply"
  /\ Known
  /\ Target.status = "resolved"
  /\ response.status = 200
  /\ TargetNow.proposedDiff # << >>

\* C18: a successful accept changes no field of any comment anchored to
\* another document, and it changes neither the offsets nor the selected
\* text of the accepted comment.
C18_NoCrossDocument ==
  AcceptDone
  => /\ \A k \in 1..Len(last.comments) :
          last.comments[k].filePath # Target.filePath
          => comments[k] = last.comments[k]
     /\ TargetNow.selectionStart = Target.selectionStart
     /\ TargetNow.selectionEnd = Target.selectionEnd
     /\ TargetNow.selectedText = Target.selectedText
     /\ TargetNow.filePath = Target.filePath

\* An accept that changed the length of its document, while a comment on
\* another document starts after the accepted comment's end.
C18_Witness ==
  /\ AcceptDone
  /\ Len(Proposal.replacement) # Len(Proposal.original)
  /\ \E k \in 1..Len(last.comments) :
       /\ last.comments[k].filePath # Target.filePath
       /\ last.comments[k].selectionStart > Target.selectionEnd

\* C19: for a stored comment that has a proposal, the only error of accept
\* is the original-text-not-found error, and after it the comment is as it
\* was, its proposal attached, so that the proposal can still be rejected
\* or replaced.
C19_OnlyNotFound ==
  (AcceptTried /\ response.status # 200)
  => /\ response.status = 400
     /\ response.error \in {ErrNotFound, ErrNotFoundFuzzy}
     /\ TargetNow = Target
     /\ TargetNow.proposedDiff # << >>

\* The last thing that happened to comment c was a successful accept or
\* reject: no reply has brought a new proposal since.
Decided(c) ==
  /\ c.messages # << >>
  /\ c.messages[Len(c.messages)] \in {AcceptedMessage, RejectedMessage}

\* C20: a proposal is decided at most once: an accept or reject of a
\* comment whose proposal has been accepted or rejected, with no new
\* proposal since, returns 'No diff to process' and changes neither the
\* documents nor any comment.
C20_DecidedOnce ==
  (last.op \in {"accept", "reject"} /\ Known /\ Decided(Target))
  => /\ response = ErrorResponse(400, ErrNoDiff)
     /\ NothingChanged

\* A second accept of a comment whose proposal was accepted.
C20_Witness ==
  /\ last.op = "accept"
  /\ Known
  /\ Decided(Target)
  /\ Target.status = "resolved"
  /\ response.status = 400

\* The lines of the document the request handled last was about.
OldLines == split(OldText, {"\n"})

\* The blocks of lines i..j, the first of them with a list marker, that
\* accumulate to the normalized original once that marker is left out.
markerBlocks(lines, original) ==
  {b \in (0..(Len(lines) - 1)) \X (0..(Len(lines) - 1)) :
     /\ b[1] <= b[2]
     /\ stripMarkers(lines[b[1] + 1], 1, "bullet") # lines[b[1] + 1]
     /\ collapseWhitespace(
          accumulated([lines EXCEPT ![b[1] + 1] = stripMarkers(@, 1, "bullet")],
                      b[1], b[2]))
          = normalizeWhitespace(original)}

\* The block the line accumulation settles on.
linesFound(m) == << m.matchStart, m.matchEnd >>

\* C13: when the original is, up to white space, a block of lines of the
\* document without the list marker its first line begins with (the item
\* "- Save 15 hours" wrapped onto "  per week", and the excerpt "Save 15
\* hours per week"), the line accumulation matches exactly those lines and
\* replaces them by the replacement as a single line.
C13_BulletAccumulates ==
  (AcceptTried /\ ~includes(OldText, Proposal.original)
     /\ markerBlocks(OldLines, Proposal.original) # {})
  => /\ linesFound(matchLines(OldLines, Proposal.original))
          \in markerBlocks(OldLines, Proposal.original)
     /\ linesBlock(OldLines, Proposal.original,
                   Proposal.replacement).error = ""

\* The lines that hold a markdown link and whose rendering, the link
\* reduced to its text, holds the original.
linkLines(lines, original) ==
  {i \in 0..(Len(lines) - 1) :
     /\ stripLinks(lines[i + 1], 1) # lines[i + 1]
     /\ includes(stripLinks(lines[i + 1], 1), original)}

\* C14: for every non-empty original, of any length, that is part of the
\* link-stripped rendering of a line of the document and that neither the
\* exact match nor the line accumulation locates, the phrase match finds
\* that line: it reports neither not-found nor any other error.
C14_LinkStripped ==
  (AcceptTried /\ Proposal.original # << >>
     /\ ~includes(OldText, Proposal.original)
     /\ matchLines(OldLines, Proposal.original).matchStart < 0
     /\ linkLines(OldLines, Proposal.original) # {})
  => /\ firstPhrase(Proposal.original) # << >>
     /\ matchPhrase(OldLines, firstPhrase(Proposal.original)[1],
                    Proposal.original).matchStart
          \in linkLines(OldLines, Proposal.original)

\* The strings the matching normalizes: the original and the lines of the
\* document.
Normalized == {Proposal.original} \cup {OldLines[i] : i \in 1..Len(OldLines)}

\* C15: each strategy's normalization is idempotent: the whitespace
\* normalization, the markdown-stripping normalization of the phrase match
\* and the list-marker-stripping normalize of the earlier fuzzy matcher
\* each give, applied twice, what they give applied once.
C15_IdempotentNormalization ==
  AcceptTried
  => \A s \in Normalized :
       /\ normalizeWhitespace(normalizeWhitespace(s)) = normalizeWhitespace(s)
       /\ normalizePhrase(normalizePhrase(s)) = normalizePhrase(s)
       /\ normalize(normalize(s)) = normalize(s)

\* The blocks of lines i..j whose trimmed lines, joined by single spaces and
\* collapsed, are the normalized original.
joinedBlocks(lines, original) ==
  {b \in (0..(Len(lines) - 1)) \X (0..(Len(lines) - 1)) :
     /\ b[1] <= b[2]
     /\ collapseWhitespace(
          join([k \in 1..(b[2] - b[1] + 1) |-> trim(lines[b[1] + k])],
               << " " >>))
          = normalizeWhitespace(original)}

\* The block with the smallest start line.
firstJoined(blocks) ==
  CHOOSE b \in blocks :
    \A c \in blocks : b[1] < c[1] \/ (b[1] = c[1] /\ b[2] <= c[2])

\* C23: when the original is not part of the document, the line
\* accumulation matches exactly when some block of lines i..j, trimmed,
\* joined by single spaces and collapsed, equals the normalized original;
\* it then settles on the block with the smallest i and replaces exactly
\* the lines i..j by the replacement.
C23_AccumulationExact ==
  (AcceptTried /\ ~includes(OldText, Proposal.original))
  => /\ (matchLines(OldLines, Proposal.original).matchStart >= 0)
          <=> (joinedBlocks(OldLines, Proposal.original) # {})
     /\ joinedBlocks(OldLines, Proposal.original) # {}
          => /\ linesFound(matchLines(OldLines, Proposal.original))
                  = firstJoined(joinedBlocks(OldLines, Proposal.original))
             /\ last.strategy = "lines"
                  => NewText
                       = replaceLines(
                           OldLines,
                           firstJoined(joinedBlocks(OldLines,
                                                    Proposal.original))[1],
                           firstJoined(joinedBlocks(OldLines,
                                                    Proposal.original))[2],
                           Proposal.replacement)

\* The lines that hold, markdown-stripped and lower-cased, the first
\* PhrasePrefixLength characters of the normalized phrase.
claimedHits(lines, phrase) ==
  {i \in 0..(Len(lines) - 1) :
     includes(normalizePhrase(lines[i + 1]),
              slicePrefix(normalizePhrase(phrase), PhrasePrefixLength))}

\* Twice the number of non-blank lines of the original, and 1 at least,
\* after the start line, but not after the last line.
claimedEstimate(lines, start, original) ==
  Min(start
        + Max(1, 2 * Cardinality({k \in 1..Len(split(original, {"\n"})) :
                                    nonBlank(split(original, {"\n"})[k])})),
      Len(lines) - 1)

\* The estimate moved back over blank lines, the start line at the least.
claimedEnd(lines, start, original) ==
  CHOOSE e \in start..claimedEstimate(lines, start, original) :
    /\ e = start \/ nonBlank(lines[e + 1])
    /\ \A k \in (e + 1)..claimedEstimate(lines, start, original) :
         ~nonBlank(lines[k + 1])

\* The document with the claimed block of the phrase replaced.
claimedText(lines, hits, original, replacement) ==
  replaceLines(lines, Least(hits), claimedEnd(lines, Least(hits), original),
               replacement)

\* C24: an accept that the phrase match, or the fuzzy match before it,
\* settles has replaced the lines from the first line that holds the start
\* of the normalized phrase up to the estimated end, which is twice the
\* original's non-blank lines after the start, clipped to the last line and
\* moved back over trailing blank lines but never before the start.
C24_PhraseBlock ==
  (AcceptDone /\ last.strategy \in {"phrase", "fuzzy"})
  => /\ firstPhrase(Proposal.original) # << >>
     /\ significant(firstPhrase(Proposal.original)[1])
     /\ claimedHits(OldLines, firstPhrase(Proposal.original)[1]) # {}
     /\ NewText
          = claimedText(OldLines,
                        claimedHits(OldLines,
                                    firstPhrase(Proposal.original)[1]),
                        Proposal.original, Proposal.replacement)
     /\ last.start
          = lineOffset(OldLines,
                       Least(claimedHits(OldLines,
                                         firstPhrase(Proposal.original)[1])))

\* The block of lines the strategy settles on for the request's proposal.
blockOf(strategy) ==
  CASE strategy = "lines" -> matchLines(OldLines, Proposal.original)
    [] strategy = "fuzzy" -> matchFuzzy(OldLines, Proposal.original)
    [] OTHER -> matchPhrase(OldLines, firstPhrase(Proposal.original)[1],
                            Proposal.original)

\* m is a block of lines of the document.
InRange(m, lines) ==
  /\ 0 <= m.matchStart
  /\ m.matchStart <= m.matchEnd
  /\ m.matchEnd <= Len(lines) - 1

C29_BlockEndsNonBlank ==
  (AcceptTried /\ ~includes(OldText, Proposal.original)
     /\ matchLines(OldLines, Proposal.original).matchStart >= 0)
  => /\ nonBlank(OldLines[matchLines(OldLines, Proposal.original).matchStart + 1])
     /\ nonBlank(OldLines[matchLines(OldLines, Proposal.original).matchEnd + 1])

\* The request went to the diff route.
DiffRequested == last.op \in {"accept", "reject", "delete"}

\* C30: a request to the diff route that fails validation changes nothing:
\* an unknown id is answered 404; a comment without a proposed diff is
\* answered 400 "No diff to process", whatever the action; an action other
\* than accept or reject on a comment with a diff is answered 400 "Invalid
\* action"; the documents and the comments stay as they were in each case.
C30_InvalidChangesNothing ==
  /\ (DiffRequested /\ ~Known)
     => /\ response = ErrorResponse(404, ErrCommentNotFound)
        /\ NothingChanged
  /\ (DiffRequested /\ Known /\ Target.proposedDiff = << >>)
     => /\ response = ErrorResponse(400, ErrNoDiff)
        /\ NothingChanged
  /\ (last.op = "delete" /\ Known /\ Target.proposedDiff # << >>)
     => /\ response = ErrorResponse(400, ErrInvalidAction)
        /\ NothingChanged

\* A request with an unknown action for a comment without a proposed diff
\* was answered "No diff to process".
C30_Witness ==
  /\ last.op = "delete"
  /\ Known
  /\ Target.proposedDiff = << >>
  /\ response.status = 400
  /\ response.error = ErrNoDiff

\* ------------------------------------------------------------------------
\* Properties of the streaming create requests
\* ------------------------------------------------------------------------

\* C21: a diff proposed through the propose_diff tool is shown to the
\* user: when the agent has called propose_diff during a streaming create
\* request, the comment the request saves and returns in its 'done' event
\* carries that diff as its proposedDiff.
C21_ToolDiffShown ==
  \A r \in 1..Len(inflight) :
    (inflight[r].pc = "closed" /\ inflight[r].proposed # << >>)
    => inflight[r].comment.proposedDiff
         = << inflight[r].proposed[Len(inflight[r].proposed)] >>

\* C22: the proposed diff is stored per request: the proposedDiff that the
\* 'done' event of an invocation of streamAgentResponse carries is
\* undefined or was set by a propose_diff call of that same invocation.
C22_DiffPerRequest ==
  \A r \in 1..Len(inflight) :
    inflight[r].ended # << >>
    => \/ inflight[r].ended[1] = << >>
       \/ \E k \in 1..Len(inflight[r].proposed) :
            inflight[r].ended[1] = << inflight[r].proposed[k] >>

\* The event the handler sends for an event of the agent.
relayed(type) == IF type = "tool_use" THEN "tool" ELSE type

\* The events sent for request q are in order.
InOrder(q) ==
  /\ q.sent # << >> => q.sent[1] = "comment_id"
  /\ Len(q.sent) >= Len(q.produced) + (IF q.sent = << >> THEN 0 ELSE 1)
  /\ \A k \in 1..Len(q.produced) : q.sent[k + 1] = relayed(q.produced[k])
  /\ \A k \in 1..Len(q.sent) :
       q.sent[k] = "done"
       => /\ k = Len(q.sent)
          /\ q.pc = "closed"
          /\ q.comment.messages = << UserMessage, AgentMessage >>
  /\ q.pc = "failed"
       => /\ q.sent[Len(q.sent)] = "error"
          /\ Len(q.sent) = Len(q.produced) + 2
  /\ Len(q.sent) <= Len(q.produced) + 2

\* C26: in every streaming create request the first event sent is
\* comment_id; the text, tool and error events follow in the order in which
\* the agent produced them; 'done' is sent at most once, only after the
\* comment with the assistant message has been saved; and nothing is sent
\* after 'done' or after the handler's own error event.
C26_EventOrder == \A r \in 1..Len(inflight) : InOrder(inflight[r])

\* A request has sent comment_id, a text event, a tool event and 'done'.
C26_Witness ==
  \E r \in 1..Len(inflight) :
    inflight[r].sent = << "comment_id", "text", "tool", "done" >>

\* ------------------------------------------------------------------------
\* Properties of an accept and a reply in flight together
\* ------------------------------------------------------------------------

\* The accept request of the pair.
Accepting == inflight[1]

\* The stored offsets of every comment are those the accept saved.
ShiftsKept ==
  /\ Len(comments) = Len(Accepting.comments)
  /\ \A k \in 1..Len(comments) :
       /\ comments[k].selectionStart
            = acceptedComments(Accepting.comments, 0)[k].selectionStart
       /\ comments[k].selectionEnd
            = acceptedComments(Accepting.comments, 0)[k].selectionEnd

\* C27: once an accept of a comment has saved the store, the store shows
\* the comment resolved and every comment at the offsets that accept gave
\* it, whatever other request saves afterwards.
C27_AcceptDurable ==
  (last.op = "race" /\ Accepting.pc = "done" /\ Accepting.found.error = "")
  => /\ comments[1].status = "resolved"
     /\ ShiftsKept

\* C28: once an accept has returned, with a response of success or with an
\* error, the document does not hold the replacement while the comment is
\* still open with the proposal it had.
C28_ChangeTogether ==
  (last.op = "race" /\ Accepting.pc \in {"done", "failed"}
     /\ Accepting.found.error = "")
  => ~ /\ files[last.comments[1].filePath] = Accepting.found.content
       /\ comments[1].status = "open"
       /\ comments[1].proposedDiff = last.comments[1].proposedDiff

\* ------------------------------------------------------------------------
\* Properties of two concurrent accepts
\* ------------------------------------------------------------------------

\* The stores after the accepts of comments a and b, one after the other,
\* on the stores the two requests found.
serial(a, b) ==
  diffHandler("phrase",
              diffHandler("phrase", last.files, last.comments,
                          a, "accept").files,
              diffHandler("phrase", last.files, last.comments,
                          a, "accept").comments,
              b, "accept")

\* Both requests have returned.
AllDone ==
  /\ Len(inflight) = 2
  /\ \A r \in 1..2 : inflight[r].pc = "done"

\* C9: two concurrent accepts on comments of the same document leave the
\* document and the comments as running the two accepts one after the
\* other, in one of the two orders, leaves them.
C9_Serializable ==
  (AllDone /\ last.comments[1].filePath = last.comments[2].filePath)
  => \/ /\ files = serial(1, 2).files
        /\ comments = serial(1, 2).comments
     \/ /\ files = serial(2, 1).files
        /\ comments = serial(2, 1).comments

====
